---------------------------- MODULE Spec2Model ----------------------------
(***************************************************************************)
(* The session state of the chat client (src/App.tsx) and the part of the  *)
(* configuration screen that calls into it                                  *)
(* (src/components/ConfigurationScreen.tsx).                                *)
(*                                                                         *)
(* The React state of App is the record `store`; every handler of App is a *)
(* pure operator from a store (and the handler's argument) to the next     *)
(* store, and every action applies the handlers of one event.  `prev` and  *)
(* `last` are history variables: the store before the most recent event   *)
(* was handled (a click, a keystroke, a submit, a message) and the name,   *)
(* argument and commands of its handler.  `form` is the local state of     *)
(* the configuration screen, lost whenever the screen is unmounted.        *)
(* `awaited` is the list of SELECT_REPOSITORY commands whose                *)
(* acknowledgement is still to come.                                       *)
(* `outstanding` is the list of FETCH_FILES requests the server has not    *)
(* answered yet.  `readyState`, `reconnectCount`, `reconnectTimeout` and   *)
(* `messageQueue` are the state of the channel useWebSocket keeps for App; *)
(* `wire` is what the most recent step transmitted to the server.  `inbox`  *)
(* holds the messages received since the router last ran, of which App     *)
(* sees the last one only (lastJsonMessage).                               *)
(***************************************************************************)
EXTENDS Integers, Sequences, FiniteSets, TLC

VARIABLES store, form, readyState, reconnectCount, reconnectTimeout,
          messageQueue, wire, inbox, outstanding, awaited, prev, last

vars == <<store, form, readyState, reconnectCount, reconnectTimeout,
          messageQueue, wire, inbox, outstanding, awaited, prev, last>>

\* The state of the channel that only its own lifecycle events change.
connection == <<readyState, reconnectCount, reconnectTimeout>>

-----------------------------------------------------------------------------
(* Bounds of the model.                                                    *)

MaxChat == 2
MaxClock == 0
MaxQueue == 2
MaxInbox == 2
MaxAwaited == 2

-----------------------------------------------------------------------------
(* Nullable values: `T | null` is the empty sequence for null and a        *)
(* one-element sequence for a value.                                       *)

None == <<>>
Some(x) == <<x>>

\* JavaScript truthiness of a `string | null`: null and "" are falsy.
TruthyStr(o) == o # None /\ o[1] # ""

-----------------------------------------------------------------------------
(* Input domains.                                                          *)

RepoIds == {"r1", "r2"}

Repo(id, name) ==
    [id |-> id, name |-> name, url |-> "https://github.com/o/" \o name,
     host |-> "github.com", owner |-> "o", repo |-> name, branch |-> "main"]

RepositoryResponses == {Repo("r1", "alpha"), Repo("r2", "beta")}

RECURSIVE SeqsUpTo(_, _)
SeqsUpTo(S, n) ==
    IF n = 0 THEN {<<>>}
    ELSE LET shorter == SeqsUpTo(S, n - 1)
         IN  shorter \cup {Append(q, x) : q \in shorter, x \in S}

\* The server assigns each record its id: a list repeats none.
RepositoryLists ==
    {q \in SeqsUpTo(RepositoryResponses, Cardinality(RepositoryResponses)) :
        \A i, j \in 1..Len(q) : q[i].id = q[j].id => i = j}

FileNodeOf(path, kind, children) ==
    [path |-> path, type |-> kind, children |-> children]

TwoNodeTree ==
    <<FileNodeOf("src", "directory", <<FileNodeOf("src/a.ts", "file", <<>>)>>)>>

OneNodeTree == <<FileNodeOf("README.md", "file", <<>>)>>

FileTrees == {TwoNodeTree, OneNodeTree}

ErrorTexts == {"no repos", "boom"}

GeminiTokens == {"", "abc"}

ChatTexts == {"hi"}

Clock == 0..MaxClock

ServerChatMessages ==
    {[id |-> "a1", sender |-> "agent", text |-> "hello", timestamp |-> 7],
     [id |-> "0", sender |-> "agent", text |-> "hi", timestamp |-> 1]}

RepositoryActions == {"add", "update", "delete", "select"}

\* Messages of a type the router has no case for.
UnknownMessages ==
    {[type |-> "PING"],
     [type |-> "TOKEN_ROTATED", payload |-> [message |-> "rotated"]]}

-----------------------------------------------------------------------------
(* The state of App after construction (the useState initial values).      *)

InitialStore ==
    [isConfigured |-> FALSE,
     configData |-> None,
     chatMessages |-> <<>>,
     fileTree |-> None,
     isFileTreeLoading |-> FALSE,
     fileTreeError |-> None,
     systemMessage |-> None,
     repositories |-> <<>>,
     selectedRepositoryId |-> None,
     selectedRepository |-> None]

\* The state of ConfigurationScreen when it is mounted.
InitialForm ==
    [geminiToken |-> "", selectedFiles |-> {}, isConfigured |-> FALSE,
     formError |-> None,
     isAddingRepo |-> FALSE, editingRepoId |-> None,
     repoName |-> "", repoUrl |-> "", repoHost |-> "github.com",
     repoOwner |-> "", repoName2 |-> "", repoBranch |-> "main",
     repoToken |-> ""]

-----------------------------------------------------------------------------
(* The message router: the useEffect on lastJsonMessage.                   *)

onConfigSuccess(s) ==
    [s EXCEPT !.isConfigured = TRUE,
              !.systemMessage =
                  Some("Configuration successful. You can now chat with the agent.")]

onConfigError_Configured(s, payload) ==
    [s EXCEPT !.systemMessage = Some("Configuration Error: " \o payload.message),
              !.isConfigured = TRUE]

onConfigError(s, payload) ==
    [s EXCEPT !.systemMessage = Some("Configuration Error: " \o payload.message),
              !.isConfigured = FALSE]

onFileTreeData_KeepLoading(s, payload) ==
    [s EXCEPT !.fileTree = Some(payload.tree),
              !.fileTreeError = None,
              !.selectedRepository =
                  IF payload.repository # None THEN payload.repository ELSE @]

onFileTreeData(s, payload) ==
    [s EXCEPT !.fileTree = Some(payload.tree),
              !.isFileTreeLoading = FALSE,
              !.fileTreeError = None,
              !.selectedRepository =
                  IF payload.repository # None THEN payload.repository ELSE @]

onFileTreeError_KeepLoading(s, payload) ==
    [s EXCEPT !.fileTreeError = Some(payload.message),
              !.fileTree = None]

onFileTreeError(s, payload) ==
    [s EXCEPT !.fileTreeError = Some(payload.message),
              !.isFileTreeLoading = FALSE,
              !.fileTree = None]

onNewChatMessage_Prepend(s, payload) ==
    [s EXCEPT !.chatMessages = <<payload>> \o @]

onNewChatMessage(s, payload) ==
    [s EXCEPT !.chatMessages = Append(@, payload)]

\* console.log only.
onAgentTyping_Logged(s, payload) ==
    [s EXCEPT !.chatMessages =
         Append(@, [id |-> "typing", sender |-> "agent", text |-> "",
                    timestamp |-> 0])]

onAgentTyping(s, payload) == s

\* Variants of the handlers, as a slip in the code would make them.
onRepositoriesList_Merge(s, payload) ==
    [s EXCEPT !.repositories = @ \o payload.repositories,
              !.selectedRepositoryId =
                  IF Len(payload.repositories) > 0 /\ ~TruthyStr(@)
                  THEN Some(payload.repositories[1].id)
                  ELSE @]

onRepositoriesList_AlwaysSelect(s, payload) ==
    [s EXCEPT !.repositories = payload.repositories,
              !.selectedRepositoryId =
                  IF Len(payload.repositories) > 0
                  THEN Some(payload.repositories[1].id)
                  ELSE @]

onRepositoriesList(s, payload) ==
    [s EXCEPT !.repositories = payload.repositories,
              !.selectedRepositoryId =
                  IF Len(payload.repositories) > 0 /\ ~TruthyStr(@)
                  THEN Some(payload.repositories[1].id)
                  ELSE @]

onRepositoryActionSuccess_AnyAction(s, payload) ==
    IF TruthyStr(payload.repository_id)
    THEN [s EXCEPT !.selectedRepositoryId = payload.repository_id]
    ELSE IF payload.repository # None
    THEN [s EXCEPT !.systemMessage =
              Some("Repository "
                   \o (IF payload.action = "add" THEN "added" ELSE "updated")
                   \o " successfully")]
    ELSE IF payload.action = "delete"
    THEN [s EXCEPT !.systemMessage = Some("Repository deleted successfully")]
    ELSE s

onRepositoryActionSuccess(s, payload) ==
    IF payload.action = "select" /\ TruthyStr(payload.repository_id)
    THEN [s EXCEPT !.selectedRepositoryId = payload.repository_id]
    ELSE IF payload.repository # None
    THEN [s EXCEPT !.systemMessage =
              Some("Repository "
                   \o (IF payload.action = "add" THEN "added" ELSE "updated")
                   \o " successfully")]
    ELSE IF payload.action = "delete"
    THEN [s EXCEPT !.systemMessage = Some("Repository deleted successfully")]
    ELSE s

onRepositoryActionError(s, payload) ==
    [s EXCEPT !.systemMessage = Some("Repository action error: " \o payload.message)]

\* The default branch: console.warn only.
onUnknown_Reported(s, message) ==
    [s EXCEPT !.systemMessage = Some("Unknown message: " \o message.type)]

onUnknown(s, message) == s

onMessage(s, message) ==
    CASE message.type = "CONFIG_SUCCESS" -> onConfigSuccess(s)
      [] message.type = "CONFIG_ERROR" -> onConfigError(s, message.payload)
      [] message.type = "FILE_TREE_DATA" -> onFileTreeData(s, message.payload)
      [] message.type = "FILE_TREE_ERROR" -> onFileTreeError(s, message.payload)
      [] message.type = "NEW_CHAT_MESSAGE" -> onNewChatMessage(s, message.payload)
      [] message.type = "AGENT_TYPING" -> onAgentTyping(s, message.payload)
      [] message.type = "REPOSITORIES_LIST" -> onRepositoriesList(s, message.payload)
      [] message.type = "REPOSITORY_ACTION_SUCCESS" ->
             onRepositoryActionSuccess(s, message.payload)
      [] message.type = "REPOSITORY_ACTION_ERROR" ->
             onRepositoryActionError(s, message.payload)
      [] OTHER -> onUnknown(s, message)

-----------------------------------------------------------------------------
(* The handlers App passes down to the screens.  Each returns the next     *)
(* store; the command it hands to sendMessage is given by the operator     *)
(* next to it.                                                             *)

\* Date.now() is read once for the id and once for the timestamp.
userMessage(text, tId, tStamp) ==
    [id |-> ToString(tId), sender |-> "user", text |-> text, timestamp |-> tStamp]

handleSendChatMessage(s, text, tId, tStamp) ==
    [s EXCEPT !.systemMessage = IF TruthyStr(@) THEN None ELSE @,
              !.chatMessages = Append(@, userMessage(text, tId, tStamp))]

sendChatCommand(text) ==
    [type |-> "SEND_CHAT_MESSAGE", payload |-> [text |-> text]]

handleConfigure(s, data) ==
    [s EXCEPT !.configData = Some(data),
              !.systemMessage = Some("Submitting configuration...")]

submitConfigCommand(data) == [type |-> "SUBMIT_CONFIG", payload |-> data]

handleFetchFileTree_KeepTree(s, details) ==
    [s EXCEPT !.isFileTreeLoading = TRUE,
              !.fileTreeError = None,
              !.systemMessage = Some("Fetching file tree...")]

handleFetchFileTree(s, details) ==
    [s EXCEPT !.isFileTreeLoading = TRUE,
              !.fileTreeError = None,
              !.fileTree = None,
              !.systemMessage = Some("Fetching file tree...")]

fetchFilesCommand(details) == [type |-> "FETCH_FILES", payload |-> details]

handleAddRepository(s, repo) ==
    [s EXCEPT !.systemMessage = Some("Adding repository...")]

addRepositoryCommand(repo) ==
    [type |-> "ADD_REPOSITORY", payload |-> [repository |-> repo]]

handleUpdateRepository(s, id, repo) ==
    [s EXCEPT !.systemMessage = Some("Updating repository...")]

updateRepositoryCommand(id, repo) ==
    [type |-> "UPDATE_REPOSITORY",
     payload |-> [repository_id |-> id, repository |-> repo]]

handleDeleteRepository_Optimistic(s, id) ==
    [s EXCEPT !.systemMessage = Some("Deleting repository..."),
              !.repositories = SelectSeq(@, LAMBDA r : r.id # id)]

handleDeleteRepository(s, id) ==
    [s EXCEPT !.systemMessage = Some("Deleting repository...")]

deleteRepositoryCommand(id) ==
    [type |-> "DELETE_REPOSITORY", payload |-> [repository_id |-> id]]

handleSelectRepository_AwaitServer(s, id) ==
    [s EXCEPT !.systemMessage = Some("Selecting repository...")]

handleSelectRepository(s, id) ==
    [s EXCEPT !.systemMessage = Some("Selecting repository..."),
              !.selectedRepositoryId = Some(id)]

selectRepositoryCommand(id) ==
    [type |-> "SELECT_REPOSITORY", payload |-> [repository_id |-> id]]

onResetConfiguration_KeepChat(s) ==
    [s EXCEPT !.isConfigured = FALSE,
              !.configData = None,
              !.fileTree = None,
              !.selectedRepository = None,
              !.selectedRepositoryId = None,
              !.systemMessage = Some("Configuration reset. Please re-configure.")]

onResetConfiguration_DropRegistry(s) ==
    [s EXCEPT !.isConfigured = FALSE,
              !.configData = None,
              !.chatMessages = <<>>,
              !.fileTree = None,
              !.repositories = <<>>,
              !.selectedRepository = None,
              !.selectedRepositoryId = None,
              !.systemMessage = Some("Configuration reset. Please re-configure.")]

onResetConfiguration(s) ==
    [s EXCEPT !.isConfigured = FALSE,
              !.configData = None,
              !.chatMessages = <<>>,
              !.fileTree = None,
              !.selectedRepository = None,
              !.selectedRepositoryId = None,
              !.systemMessage = Some("Configuration reset. Please re-configure.")]

-----------------------------------------------------------------------------
(* The options App gives to useWebSocket, and sendMessage as App calls it: *)
(* with the message alone, so that a message handed over while the channel *)
(* is not OPEN is kept and sent when the channel opens.                    *)

shouldReconnect == TRUE

reconnectAttempts_Eleven == 10 + 1

reconnectAttempts == 10

reconnectInterval == 3000

\* What sendMessage puts on the wire at once, and the messages it keeps.
\* `issuedWhile` records the state of the channel at the call.
RECURSIVE handedOver(_, _)
handedOver(sent, ready) ==
    IF sent = <<>> THEN <<>>
    ELSE <<[message |-> Head(sent), issuedWhile |-> ready]>>
         \o handedOver(Tail(sent), ready)

transmitted(sent, ready) ==
    IF ready = "OPEN" THEN handedOver(sent, ready) ELSE <<>>

kept(sent, ready, queue) ==
    IF ready # "OPEN" THEN queue \o handedOver(sent, ready) ELSE queue

-----------------------------------------------------------------------------
(* What App renders, and the configuration screen's use of the handlers.   *)

isConnecting == readyState \in {"CONNECTING", "CLOSED"}

\* App shows only a spinner while CONNECTING and not configured, the
\* configuration screen while not configured, the chat otherwise.
showsConfigurationScreen(s, ready) == ~s.isConfigured /\ ready # "CONNECTING"

ConfigurationScreenShown == showsConfigurationScreen(store, readyState)

ChatInterfaceShown == store.isConfigured

\* The local state of the configuration screen lives as long as the screen
\* is rendered; a screen rendered anew starts from its initial state.
mounted(f, s, ready) ==
    IF showsConfigurationScreen(s, ready) THEN f ELSE InitialForm

\* The router's FILE_TREE_DATA case stores the tree of the message: a tree
\* other than the one held, even when the two have the same nodes.
storesNewTree(op) == op = "FILE_TREE_DATA"

\* The render that follows the handlers of an event: the screen's effect on
\* its fileTreeData prop unticks every file whenever the tree it is given
\* is another one.
rendered(f, s, next, ready, op) ==
    IF ~showsConfigurationScreen(next, ready) THEN InitialForm
    ELSE IF storesNewTree(op) \/ next.fileTree # s.fileTree
         THEN [f EXCEPT !.selectedFiles = {}]
         ELSE f

\* The submit button of the configuration form.
SubmitEnabled ==
    /\ ConfigurationScreenShown
    /\ form.geminiToken # ""
    /\ Len(store.repositories) # 0
    /\ ~isConnecting
    /\ ~form.isConfigured

RefreshFilesEnabled_WhileConnecting ==
    /\ ConfigurationScreenShown
    /\ TruthyStr(store.selectedRepositoryId)
    /\ ~store.isFileTreeLoading

\* The "Refresh Files" button is rendered for a selected repository and is
\* disabled while loading or connecting.
RefreshFilesEnabled ==
    /\ ConfigurationScreenShown
    /\ TruthyStr(store.selectedRepositoryId)
    /\ ~store.isFileTreeLoading
    /\ ~isConnecting

\* The configuration handleConfigSubmit builds from the registry; the tokens
\* are not known any more.
configOf(geminiToken, repositories) ==
    [geminiToken |-> geminiToken,
     repositories |->
         [i \in 1..Len(repositories) |->
             [id |-> repositories[i].id, name |-> repositories[i].name,
              url |-> repositories[i].url, host |-> repositories[i].host,
              owner |-> repositories[i].owner, repo |-> repositories[i].repo,
              branch |-> repositories[i].branch, token |-> ""]]]

\* handleConfigSubmit: the form after it, and whether it calls onConfigure.
configSubmitAccepted_NoTokenCheck(f, repositories) ==
    Len(repositories) # 0

configSubmitAccepted(f, repositories) ==
    f.geminiToken # "" /\ Len(repositories) # 0

handleConfigSubmit(f, repositories) ==
    IF f.geminiToken = ""
    THEN [f EXCEPT !.formError = Some("Gemini API Token is required.")]
    ELSE IF Len(repositories) = 0
    THEN [f EXCEPT !.formError = Some("Please add at least one repository.")]
    ELSE [f EXCEPT !.formError = None, !.isConfigured = TRUE]

\* The repository form.
resetRepoForm(f) ==
    [f EXCEPT !.repoName = "", !.repoUrl = "", !.repoHost = "github.com",
              !.repoOwner = "", !.repoName2 = "", !.repoBranch = "main",
              !.repoToken = "", !.isAddingRepo = FALSE,
              !.editingRepoId = None]

loadRepositoryForEdit_KeepToken(f, repo) ==
    [f EXCEPT !.repoName = repo.name, !.repoUrl = repo.url,
              !.repoHost = repo.host, !.repoOwner = repo.owner,
              !.repoName2 = repo.repo, !.repoBranch = repo.branch,
              !.editingRepoId = Some(repo.id),
              !.isAddingRepo = TRUE]

\* The server does not return the token.
loadRepositoryForEdit(f, repo) ==
    [f EXCEPT !.repoName = repo.name, !.repoUrl = repo.url,
              !.repoHost = repo.host, !.repoOwner = repo.owner,
              !.repoName2 = repo.repo, !.repoBranch = repo.branch,
              !.repoToken = "", !.editingRepoId = Some(repo.id),
              !.isAddingRepo = TRUE]

\* The inputs of the repository form marked required: the token only while
\* no entry is being edited.
requiredFilled(f) ==
    /\ f.repoName # ""
    /\ f.repoOwner # ""
    /\ f.repoName2 # ""
    /\ ~TruthyStr(f.editingRepoId) => f.repoToken # ""

\* handleRepoSubmit: whether it calls addRepository or updateRepository, the
\* repository it passes, and the form after it.
repoSubmitAccepted(f) ==
    f.repoName # "" /\ f.repoToken # "" /\ f.repoOwner # "" /\ f.repoName2 # ""

repositoryOf(f) ==
    [name |-> f.repoName,
     url |-> IF f.repoUrl # "" THEN f.repoUrl
             ELSE "https://" \o f.repoHost \o "/" \o f.repoOwner
                  \o "/" \o f.repoName2,
     host |-> f.repoHost,
     owner |-> f.repoOwner,
     repo |-> f.repoName2,
     branch |-> IF f.repoBranch # "" THEN f.repoBranch ELSE "main",
     token |-> f.repoToken]

handleRepoSubmit(f) ==
    IF repoSubmitAccepted(f)
    THEN resetRepoForm(f)
    ELSE [f EXCEPT !.formError =
              Some("Repository name, token, owner, and name are required.")]

\* What the user can type into the fields of the repository form.
RepoFieldValues ==
    [repoName |-> {"", "alpha"}, repoToken |-> {"", "ghp_1"},
     repoHost |-> {"github.com", "ghe.example"}, repoOwner |-> {"", "o"},
     repoName2 |-> {"", "alpha"}, repoBranch |-> {"", "dev"}]

RepositoryForms ==
    {[name |-> "alpha", url |-> "https://github.com/o/alpha", host |-> "github.com",
      owner |-> "o", repo |-> "alpha", branch |-> "main", token |-> "ghp_1"]}

\* The paths of the nodes of a file tree.
RECURSIVE pathsOf(_)
pathsOf(nodes) ==
    IF nodes = <<>> THEN {}
    ELSE {Head(nodes).path} \cup pathsOf(Head(nodes).children)
         \cup pathsOf(Tail(nodes))

ListedIds == {store.repositories[i].id : i \in 1..Len(store.repositories)}

-----------------------------------------------------------------------------
(* Actions.                                                                *)

\* The handlers of one event of App or of the screen run: `sent` is what
\* they hand to sendMessage, in order.
StepForm(op, arg, sent, next, nextForm) ==
    /\ readyState # "OPEN" => Len(messageQueue) + Len(sent) <= MaxQueue
    /\ store' = next
    /\ form' = rendered(nextForm, store, next, readyState, op)
    /\ wire' = transmitted(sent, readyState)
    /\ inbox' = inbox
    /\ messageQueue' = kept(sent, readyState, messageQueue)
    /\ prev' = store
    /\ last' = [op |-> op, arg |-> arg, sent |-> sent]

Step(op, arg, sent, next) == StepForm(op, arg, sent, next, form)

Init ==
    /\ store = InitialStore
    /\ form = InitialForm
    /\ readyState = "CONNECTING"
    /\ reconnectCount = 0
    /\ reconnectTimeout = None
    /\ messageQueue = <<>>
    /\ wire = <<>>
    /\ inbox = <<>>
    /\ outstanding = <<>>
    /\ awaited = <<>>
    /\ prev = InitialStore
    /\ last = [op |-> "init", arg |-> None, sent |-> None]

\* The channel (react-use-websocket, with the options App gives it).  On
\* open the attempt count starts over and the kept messages are sent, in the
\* order they were handed over.
ConnectionOpened ==
    /\ readyState = "CONNECTING"
    /\ readyState' = "OPEN"
    /\ reconnectCount' = 0
    /\ wire' = messageQueue
    /\ messageQueue' = <<>>
    /\ form' = mounted(form, store, readyState')
    /\ UNCHANGED <<store, reconnectTimeout, inbox, outstanding, awaited, prev, last>>

\* The channel closes, or an attempt to open it fails; App never closes it
\* itself.  A request sent on a connection that closes is never answered.
\* A further attempt is scheduled unless the ceiling is reached.
ConnectionClosed ==
    /\ readyState \in {"CONNECTING", "OPEN"}
    /\ readyState' = "CLOSED"
    /\ reconnectTimeout' =
           IF shouldReconnect /\ reconnectCount < reconnectAttempts
           THEN Some(reconnectInterval)
           ELSE None
    /\ form' = mounted(form, store, readyState')
    /\ outstanding' = <<>>
    /\ awaited' = <<>>
    /\ wire' = <<>>
    /\ UNCHANGED <<store, reconnectCount, messageQueue, inbox, prev, last>>

\* The scheduled attempt starts.
Reconnect ==
    /\ readyState = "CLOSED"
    /\ reconnectTimeout # None
    /\ readyState' = "CONNECTING"
    /\ reconnectCount' = reconnectCount + 1
    /\ reconnectTimeout' = None
    /\ form' = mounted(form, store, readyState')
    /\ wire' = <<>>
    /\ UNCHANGED <<store, messageQueue, inbox, outstanding, awaited, prev, last>>

\* The message the router sees when it runs: the last one received.
lastJsonMessage == IF inbox = <<>> THEN None ELSE Some(inbox[Len(inbox)])

\* An event from the server runs the router once: the message is received
\* and App is rendered, with its effect, before the next one comes in.
Receive(message) ==
    /\ readyState = "OPEN"
    /\ inbox = <<>>
    /\ Step(message.type, message, None, onMessage(store, message))
    /\ UNCHANGED connection

ReceiveConfigSuccess ==
    /\ Receive([type |-> "CONFIG_SUCCESS"])
    /\ UNCHANGED <<outstanding, awaited>>

ReceiveConfigError ==
    /\ \E m \in ErrorTexts :
           Receive([type |-> "CONFIG_ERROR", payload |-> [message |-> m]])
    /\ UNCHANGED <<outstanding, awaited>>

\* The answer to an outstanding FETCH_FILES; `repository`, when present, is
\* the record of the repository that was asked for.
Without(q, i) == SubSeq(q, 1, i - 1) \o SubSeq(q, i + 1, Len(q))

ReceiveFileTreeData ==
    \E i \in 1..Len(outstanding), tree \in FileTrees,
       repository \in {None} \cup {Some(r) : r \in RepositoryResponses} :
        /\ repository # None => repository[1].id = outstanding[i]
        /\ Receive([type |-> "FILE_TREE_DATA",
                    payload |-> [tree |-> tree, repository |-> repository],
                    answers |-> outstanding[i]])
        /\ outstanding' = Without(outstanding, i)
        /\ awaited' = awaited

ReceiveFileTreeError ==
    \E i \in 1..Len(outstanding), m \in ErrorTexts :
        /\ Receive([type |-> "FILE_TREE_ERROR", payload |-> [message |-> m],
                    answers |-> outstanding[i]])
        /\ outstanding' = Without(outstanding, i)
        /\ awaited' = awaited

ReceiveNewChatMessage ==
    /\ Len(store.chatMessages) < MaxChat
    /\ \E msg \in ServerChatMessages :
           Receive([type |-> "NEW_CHAT_MESSAGE", payload |-> msg])
    /\ UNCHANGED <<outstanding, awaited>>

ReceiveAgentTyping ==
    /\ \E b \in BOOLEAN :
           Receive([type |-> "AGENT_TYPING", payload |-> [isTyping |-> b]])
    /\ UNCHANGED <<outstanding, awaited>>

ReceiveRepositoriesList ==
    /\ \E list \in RepositoryLists :
           Receive([type |-> "REPOSITORIES_LIST",
                    payload |-> [repositories |-> list]])
    /\ UNCHANGED <<outstanding, awaited>>

\* The record, when the event carries one together with an id, is the
\* record of that id.
ReceiveRepositoryActionSuccess ==
    /\ \E action \in RepositoryActions,
          id \in {None} \cup {Some(r) : r \in RepoIds},
          repository \in {None} \cup {Some(r) : r \in RepositoryResponses} :
           /\ (id # None /\ repository # None) => repository[1].id = id[1]
           /\ Receive([type |-> "REPOSITORY_ACTION_SUCCESS",
                       payload |-> [action |-> action, repository_id |-> id,
                                    repository |-> repository]])
    /\ UNCHANGED <<outstanding, awaited>>

ReceiveRepositoryActionError ==
    /\ \E m \in ErrorTexts :
           Receive([type |-> "REPOSITORY_ACTION_ERROR",
                    payload |-> [message |-> m]])
    /\ UNCHANGED <<outstanding, awaited>>

ReceiveUnknown ==
    /\ \E message \in UnknownMessages : Receive(message)
    /\ UNCHANGED <<outstanding, awaited>>

\* A message is received and becomes lastJsonMessage; the router runs when
\* App is next rendered, which can be after further messages came in.
ArrivingMessages ==
    {[type |-> "NEW_CHAT_MESSAGE", payload |-> msg] : msg \in ServerChatMessages}
    \cup {[type |-> "CONFIG_SUCCESS"],
          [type |-> "AGENT_TYPING", payload |-> [isTyping |-> TRUE]]}

MessageArrives ==
    /\ readyState = "OPEN"
    /\ Len(inbox) < MaxInbox
    /\ \E message \in ArrivingMessages : inbox' = Append(inbox, message)
    /\ wire' = <<>>
    /\ UNCHANGED <<store, form, connection, messageQueue, outstanding, awaited, prev, last>>

EffectRuns ==
    /\ lastJsonMessage # None
    /\ LET message == lastJsonMessage[1]
           next == onMessage(store, message)
       IN  /\ Len(next.chatMessages) <= MaxChat
           /\ store' = next
           /\ form' = rendered(form, store, next, readyState, message.type)
           /\ prev' = store
           /\ last' = [op |-> message.type, arg |-> message, sent |-> None,
                       arrived |-> inbox]
    /\ inbox' = <<>>
    /\ wire' = <<>>
    /\ UNCHANGED <<connection, messageQueue, outstanding, awaited>>

\* The configuration screen.
EditGeminiToken ==
    /\ ConfigurationScreenShown
    /\ \E token \in GeminiTokens :
           /\ token # form.geminiToken
           /\ form' = [form EXCEPT !.geminiToken = token]
    /\ wire' = <<>>
    /\ prev' = store
    /\ last' = [op |-> "setGeminiToken", arg |-> None, sent |-> None]
    /\ UNCHANGED <<store, connection, messageQueue, inbox, outstanding, awaited>>

Configure ==
    /\ SubmitEnabled
    /\ LET data == configOf(form.geminiToken, store.repositories)
       IN  IF configSubmitAccepted(form, store.repositories)
           THEN StepForm("configure", data, Some(submitConfigCommand(data)),
                         handleConfigure(store, data),
                         handleConfigSubmit(form, store.repositories))
           ELSE StepForm("handleConfigSubmit", form, None, store,
                         handleConfigSubmit(form, store.repositories))
    /\ UNCHANGED <<connection, outstanding, awaited>>

FetchFileTree ==
    /\ RefreshFilesEnabled
    /\ LET details == [repository_id |-> store.selectedRepositoryId[1]]
       IN  /\ Step("fetchFileTree", details, Some(fetchFilesCommand(details)),
                   handleFetchFileTree(store, details))
           /\ outstanding' = Append(outstanding, details.repository_id)
           /\ awaited' = awaited
    /\ UNCHANGED connection

\* The buttons of a registry entry.
DeleteRepository ==
    /\ ConfigurationScreenShown
    /\ \E id \in ListedIds :
           Step("deleteRepository", id, Some(deleteRepositoryCommand(id)),
                handleDeleteRepository(store, id))
    /\ UNCHANGED <<connection, outstanding, awaited>>

SelectRepository ==
    /\ ConfigurationScreenShown
    /\ \E id \in ListedIds :
           Step("selectRepository", id, Some(selectRepositoryCommand(id)),
                handleSelectRepository(store, id))
    /\ UNCHANGED <<connection, outstanding, awaited>>

\* selectRepository on an open channel, with the acknowledgement the server
\* owes recorded; the server acknowledges the commands in the order it got
\* them.  `pending` lists the selections issued after the acknowledged one.
SelectRepositoryAwaited ==
    /\ ConfigurationScreenShown
    /\ readyState = "OPEN"
    /\ Len(awaited) < MaxAwaited
    /\ \E id \in ListedIds :
           /\ Step("selectRepository", id, Some(selectRepositoryCommand(id)),
                   handleSelectRepository(store, id))
           /\ awaited' = Append(awaited, id)
    /\ UNCHANGED <<connection, outstanding>>

ReceiveSelectAcknowledged ==
    /\ awaited # <<>>
    /\ Receive([type |-> "REPOSITORY_ACTION_SUCCESS",
                payload |-> [action |-> "select",
                             repository_id |-> Some(Head(awaited)),
                             repository |-> None],
                pending |-> Tail(awaited)])
    /\ awaited' = Tail(awaited)
    /\ UNCHANGED outstanding

\* The submit event of the configuration form: handleConfigSubmit runs,
\* whatever raised the event.
SubmitConfigForm ==
    /\ ConfigurationScreenShown
    /\ LET data == configOf(form.geminiToken, store.repositories)
       IN  IF configSubmitAccepted(form, store.repositories)
           THEN StepForm("configure", data, Some(submitConfigCommand(data)),
                         handleConfigure(store, data),
                         handleConfigSubmit(form, store.repositories))
           ELSE StepForm("handleConfigSubmit", form, None, store,
                         handleConfigSubmit(form, store.repositories))
    /\ UNCHANGED <<connection, outstanding, awaited>>

\* The repository form: opened, typed into, loaded from a registry entry,
\* cancelled and submitted.  An event that sets local state of the screen
\* only leaves the store alone and sends nothing.
FormStep(op, nextForm) ==
    /\ ConfigurationScreenShown
    /\ nextForm # form
    /\ form' = nextForm
    /\ wire' = <<>>
    /\ prev' = store
    /\ last' = [op |-> op, arg |-> None, sent |-> None]
    /\ UNCHANGED <<store, connection, messageQueue, inbox, outstanding, awaited>>

OpenRepoForm ==
    /\ ~form.isAddingRepo
    /\ FormStep("setIsAddingRepo", [form EXCEPT !.isAddingRepo = TRUE])

\* Typing into an input of the repository form: any of the six, or one of
\* the required four.
EditRepoForm ==
    /\ form.isAddingRepo
    /\ \E field \in DOMAIN RepoFieldValues :
           \E value \in RepoFieldValues[field] :
               FormStep("onChange", [form EXCEPT ![field] = value])

EditRepoName ==
    /\ form.isAddingRepo
    /\ \E value \in RepoFieldValues.repoName :
           FormStep("setRepoName", [form EXCEPT !.repoName = value])

EditRepoToken ==
    /\ form.isAddingRepo
    /\ \E value \in RepoFieldValues.repoToken :
           FormStep("setRepoToken", [form EXCEPT !.repoToken = value])

EditRepoOwner ==
    /\ form.isAddingRepo
    /\ \E value \in RepoFieldValues.repoOwner :
           FormStep("setRepoOwner", [form EXCEPT !.repoOwner = value])

EditRepoName2 ==
    /\ form.isAddingRepo
    /\ \E value \in RepoFieldValues.repoName2 :
           FormStep("setRepoName2", [form EXCEPT !.repoName2 = value])

\* The file tree, shown for a selected repository once loaded, reports the
\* files ticked in it.
ChangeFileSelection ==
    /\ TruthyStr(store.selectedRepositoryId)
    /\ store.fileTree # None
    /\ ~store.isFileTreeLoading
    /\ store.fileTreeError = None
    /\ \E paths \in SUBSET pathsOf(store.fileTree[1]) :
           FormStep("setSelectedFiles", [form EXCEPT !.selectedFiles = paths])

LoadRepositoryForEdit ==
    \E i \in 1..Len(store.repositories) :
        FormStep("loadRepositoryForEdit",
                 loadRepositoryForEdit(form, store.repositories[i]))

CancelRepoForm ==
    /\ form.isAddingRepo
    /\ FormStep("resetRepoForm", resetRepoForm(form))

\* The submit event of the repository form: handleRepoSubmit runs and then,
\* the repository form being rendered inside the configuration form and the
\* event bubbling, handleConfigSubmit; both see the state of the same render.
SubmitRepoForm ==
    /\ ConfigurationScreenShown
    /\ form.isAddingRepo
    /\ LET repo == repositoryOf(form)
           data == configOf(form.geminiToken, store.repositories)
           repoAccepted == repoSubmitAccepted(form)
           configAccepted == configSubmitAccepted(form, store.repositories)
           repoSent ==
               IF ~repoAccepted THEN <<>>
               ELSE IF TruthyStr(form.editingRepoId)
               THEN <<updateRepositoryCommand(form.editingRepoId[1], repo)>>
               ELSE <<addRepositoryCommand(repo)>>
           afterRepo ==
               IF ~repoAccepted THEN store
               ELSE IF TruthyStr(form.editingRepoId)
               THEN handleUpdateRepository(store, form.editingRepoId[1], repo)
               ELSE handleAddRepository(store, repo)
           configSent ==
               IF configAccepted THEN <<submitConfigCommand(data)>> ELSE <<>>
           afterConfig ==
               IF configAccepted THEN handleConfigure(afterRepo, data)
               ELSE afterRepo
       IN  StepForm("handleRepoSubmit", form, repoSent \o configSent,
                    afterConfig,
                    handleConfigSubmit(handleRepoSubmit(form),
                                       store.repositories))
    /\ UNCHANGED <<connection, outstanding, awaited>>

\* The chat screen.
SendChatMessage ==
    /\ ChatInterfaceShown
    /\ Len(store.chatMessages) < MaxChat
    /\ \E text \in ChatTexts, tId \in Clock, tStamp \in Clock :
           /\ tId <= tStamp
           /\ Step("sendChatMessage", text, Some(sendChatCommand(text)),
                   handleSendChatMessage(store, text, tId, tStamp))
    /\ UNCHANGED <<connection, outstanding, awaited>>

ResetConfiguration ==
    /\ ChatInterfaceShown
    /\ Step("resetConfiguration", None, None, onResetConfiguration(store))
    /\ UNCHANGED <<connection, outstanding, awaited>>

Next ==
    \/ ConnectionOpened
    \/ ConnectionClosed
    \/ Reconnect
    \/ ReceiveConfigSuccess
    \/ ReceiveConfigError
    \/ ReceiveFileTreeData
    \/ ReceiveFileTreeError
    \/ ReceiveNewChatMessage
    \/ ReceiveAgentTyping
    \/ ReceiveRepositoriesList
    \/ ReceiveRepositoryActionSuccess
    \/ ReceiveRepositoryActionError
    \/ ReceiveUnknown
    \/ MessageArrives
    \/ EffectRuns
    \/ EditGeminiToken
    \/ Configure
    \/ FetchFileTree
    \/ DeleteRepository
    \/ SelectRepository
    \/ SelectRepositoryAwaited
    \/ ReceiveSelectAcknowledged
    \/ SubmitConfigForm
    \/ OpenRepoForm
    \/ EditRepoForm
    \/ EditRepoName
    \/ EditRepoToken
    \/ EditRepoOwner
    \/ EditRepoName2
    \/ ChangeFileSelection
    \/ LoadRepositoryForEdit
    \/ CancelRepoForm
    \/ SubmitRepoForm
    \/ SendChatMessage
    \/ ResetConfiguration

Spec == Init /\ [][Next]_vars

-----------------------------------------------------------------------------
(* The state machines of the session, each with the operations that read   *)
(* or write its part of the state.                                         *)

NextRepositories ==
    \/ ConnectionOpened
    \/ ConnectionClosed
    \/ Reconnect
    \/ ReceiveRepositoriesList
    \/ ReceiveRepositoryActionSuccess
    \/ ReceiveRepositoryActionError
    \/ DeleteRepository
    \/ SelectRepository
    \/ ReceiveConfigSuccess
    \/ ResetConfiguration

SpecRepositories == Init /\ [][NextRepositories]_vars

NextFileTree ==
    \/ ConnectionOpened
    \/ ConnectionClosed
    \/ Reconnect
    \/ ReceiveRepositoriesList
    \/ SelectRepository
    \/ FetchFileTree
    \/ ReceiveFileTreeData
    \/ ReceiveFileTreeError
    \/ ChangeFileSelection
    \/ ReceiveConfigSuccess
    \/ ResetConfiguration

SpecFileTree == Init /\ [][NextFileTree]_vars

NextChat ==
    \/ ConnectionOpened
    \/ ConnectionClosed
    \/ Reconnect
    \/ ReceiveConfigSuccess
    \/ SendChatMessage
    \/ ReceiveNewChatMessage
    \/ ReceiveAgentTyping
    \/ ResetConfiguration

SpecChat == Init /\ [][NextChat]_vars

NextConfiguration ==
    \/ ConnectionOpened
    \/ ConnectionClosed
    \/ Reconnect
    \/ ReceiveRepositoriesList
    \/ EditGeminiToken
    \/ Configure
    \/ ReceiveConfigSuccess
    \/ ReceiveConfigError
    \/ ResetConfiguration

SpecConfiguration == Init /\ [][NextConfiguration]_vars

\* A whole session: registry, configuration, chat, reset.
NextSession ==
    \/ ConnectionOpened
    \/ ReceiveRepositoriesList
    \/ EditGeminiToken
    \/ Configure
    \/ ReceiveConfigSuccess
    \/ SendChatMessage
    \/ ReceiveUnknown
    \/ ResetConfiguration

SpecSession == Init /\ [][NextSession]_vars

\* The configuration form and the repository form of the configuration
\* screen.
NextConfigForm ==
    \/ ConnectionOpened
    \/ ConnectionClosed
    \/ Reconnect
    \/ ReceiveRepositoriesList
    \/ EditGeminiToken
    \/ SubmitConfigForm
    \/ ReceiveConfigError

SpecConfigForm == Init /\ [][NextConfigForm]_vars

NextRepoForm ==
    \/ ConnectionOpened
    \/ ReceiveRepositoriesList
    \/ EditGeminiToken
    \/ OpenRepoForm
    \/ EditRepoName
    \/ EditRepoOwner
    \/ EditRepoName2
    \/ EditRepoToken
    \/ LoadRepositoryForEdit
    \/ CancelRepoForm
    \/ SubmitRepoForm

SpecRepoForm == Init /\ [][NextRepoForm]_vars

\* The registry with the commands that ask for a change of it.
NextRegistry ==
    \/ ConnectionOpened
    \/ ReceiveRepositoriesList
    \/ ReceiveRepositoryActionSuccess
    \/ ReceiveRepositoryActionError
    \/ DeleteRepository
    \/ SelectRepository
    \/ OpenRepoForm
    \/ EditRepoName
    \/ EditRepoOwner
    \/ EditRepoName2
    \/ EditRepoToken
    \/ LoadRepositoryForEdit
    \/ SubmitRepoForm

SpecRegistry == Init /\ [][NextRegistry]_vars

\* The configuration screen with the registry entries opened for editing.
NextTokens ==
    \/ ConnectionOpened
    \/ ReceiveRepositoriesList
    \/ EditGeminiToken
    \/ SubmitConfigForm
    \/ EditRepoToken
    \/ LoadRepositoryForEdit
    \/ CancelRepoForm

SpecTokens == Init /\ [][NextTokens]_vars

\* The delivery of messages to the router.
NextDelivery ==
    \/ ConnectionOpened
    \/ ConnectionClosed
    \/ MessageArrives
    \/ EffectRuns

SpecDelivery == Init /\ [][NextDelivery]_vars

\* Selections and their acknowledgements.
NextSelection ==
    \/ ConnectionOpened
    \/ ConnectionClosed
    \/ Reconnect
    \/ ReceiveRepositoriesList
    \/ SelectRepositoryAwaited
    \/ ReceiveSelectAcknowledged

SpecSelection == Init /\ [][NextSelection]_vars

\* The channel with the commands that can be issued while it is closed.
NextConnection ==
    \/ ConnectionOpened
    \/ ConnectionClosed
    \/ Reconnect
    \/ ReceiveRepositoriesList
    \/ SelectRepository
    \/ DeleteRepository

SpecConnection == Init /\ [][NextConnection]_vars

-----------------------------------------------------------------------------
(* Properties.                                                             *)

\* C1: after a REPOSITORIES_LIST event the registry is exactly the list of the
\* event's payload, in the payload's order, whatever the registry held before.
C1_RegistryReplaced ==
    last.op = "REPOSITORIES_LIST" =>
        store.repositories = last.arg.payload.repositories

\* A non-empty registry has just been replaced by a different non-empty list.
C1_Witness ==
    /\ last.op = "REPOSITORIES_LIST"
    /\ Len(prev.repositories) = 2
    /\ Len(last.arg.payload.repositories) = 1
    /\ last.arg.payload.repositories[1] # prev.repositories[1]
    /\ store.repositories = last.arg.payload.repositories

\* C2: fetchFileTree leaves the file tree LOADING with no tree and no error,
\* and a tree appears in the store only by a FILE_TREE_DATA event, so none is
\* present between a fetch and the next FILE_TREE_DATA.
C2_FetchClearsTree ==
    /\ last.op = "fetchFileTree" =>
           /\ store.isFileTreeLoading
           /\ store.fileTree = None
           /\ store.fileTreeError = None
    /\ (store.fileTree # None /\ store.fileTree # prev.fileTree) =>
           last.op = "FILE_TREE_DATA"

\* A fetch has just been issued while a tree was LOADED.
C2_Witness ==
    /\ last.op = "fetchFileTree"
    /\ prev.fileTree = Some(TwoNodeTree)
    /\ ~prev.isFileTreeLoading
    /\ store.fileTree = None
    /\ store.isFileTreeLoading

\* C3: whenever the selection changes to a different repository id, the file
\* tree is IDLE: no tree, not loading, no error.
C3_SwitchResetsTree ==
    (store.selectedRepositoryId # prev.selectedRepositoryId
     /\ store.selectedRepositoryId # None) =>
        /\ store.fileTree = None
        /\ ~store.isFileTreeLoading
        /\ store.fileTreeError = None

\* C4: a FILE_TREE_DATA that answers a fetch for a repository other than the
\* selected one is discarded: the file tree stays as it was.
C4_StaleResponseDiscarded ==
    (last.op = "FILE_TREE_DATA"
     /\ Some(last.arg.answers) # prev.selectedRepositoryId) =>
        /\ store.fileTree = prev.fileTree
        /\ store.isFileTreeLoading = prev.isFileTreeLoading

\* C5: from a transcript of length n, sendChatMessage followed by one
\* NEW_CHAT_MESSAGE gives a transcript of length n+2 that keeps the first n
\* entries, has the user message at n+1 and the received message at n+2, for
\* every placing of AGENT_TYPING events before, between and after the two.
TypingEvents ==
    {[type |-> "AGENT_TYPING", payload |-> [isTyping |-> b]] : b \in BOOLEAN}

RECURSIVE routed(_, _)
routed(s, events) ==
    IF events = <<>> THEN s
    ELSE routed(onMessage(s, Head(events)), Tail(events))

C5_SendThenReply ==
    (store.isConfigured /\ readyState = "OPEN") =>
        \A text \in ChatTexts, tId \in Clock, tStamp \in Clock,
           msg \in ServerChatMessages,
           before \in SeqsUpTo(TypingEvents, 1),
           between \in SeqsUpTo(TypingEvents, 1),
           after \in SeqsUpTo(TypingEvents, 1) :
            LET n == Len(store.chatMessages)
                sent == handleSendChatMessage(routed(store, before),
                                              text, tId, tStamp)
                replied == onMessage(routed(sent, between),
                                     [type |-> "NEW_CHAT_MESSAGE", payload |-> msg])
                final == routed(replied, after).chatMessages
            IN  /\ Len(final) = n + 2
                /\ SubSeq(final, 1, n) = store.chatMessages
                /\ final[n + 1] = userMessage(text, tId, tStamp)
                /\ final[n + 2] = msg

\* A reply has just been appended behind a user message.
C5_Witness ==
    /\ last.op = "NEW_CHAT_MESSAGE"
    /\ Len(store.chatMessages) = Len(prev.chatMessages) + 1
    /\ Len(store.chatMessages) >= 2
    /\ store.chatMessages[Len(store.chatMessages) - 1].sender = "user"
    /\ store.chatMessages[Len(store.chatMessages)] = last.arg.payload

\* C6: a CONFIG_ERROR with message m that arrives after a configuration was
\* submitted and before it was accepted leaves the session unconfigured, with
\* the status text "Configuration Error: " followed by m.
C6_ConfigErrorUnconfigures ==
    (last.op = "CONFIG_ERROR" /\ prev.configData # None /\ ~prev.isConfigured) =>
        /\ ~store.isConfigured
        /\ store.systemMessage =
               Some("Configuration Error: " \o last.arg.payload.message)

\* The submitted configuration has just been rejected with "no repos".
C6_Witness ==
    /\ last.op = "CONFIG_ERROR"
    /\ prev.configData # None
    /\ prev.systemMessage = Some("Submitting configuration...")
    /\ ~store.isConfigured
    /\ store.systemMessage = Some("Configuration Error: no repos")

\* C7: a session reset leaves the session unconfigured, with no configuration
\* data and an empty transcript, and the registry as it was.
C7_ResetClearsSession ==
    last.op = "resetConfiguration" =>
        /\ ~store.isConfigured
        /\ store.configData = None
        /\ store.chatMessages = <<>>
        /\ store.repositories = prev.repositories

\* A configured session with a transcript and a registry has just been reset.
C7_Witness ==
    /\ last.op = "resetConfiguration"
    /\ prev.isConfigured
    /\ prev.configData # None
    /\ Len(prev.chatMessages) > 0
    /\ Len(prev.repositories) > 0
    /\ store.repositories = prev.repositories

\* C8: the registry survives a reset, and a REPOSITORIES_LIST that carries the
\* list the registry already holds (the resync after a reset, or the same list
\* a second time) leaves the registry identical.
C8_ResyncIdempotent ==
    /\ last.op = "resetConfiguration" => store.repositories = prev.repositories
    /\ (last.op = "REPOSITORIES_LIST"
        /\ last.arg.payload.repositories = prev.repositories) =>
           store.repositories = prev.repositories

\* The list held before a reset has just been received again after it.
C8_Witness ==
    /\ last.op = "REPOSITORIES_LIST"
    /\ prev.systemMessage = Some("Configuration reset. Please re-configure.")
    /\ Len(prev.repositories) = 2
    /\ last.arg.payload.repositories = prev.repositories
    /\ store.repositories = prev.repositories

\* C9: on REPOSITORIES_LIST, with nothing selected and a non-empty list the
\* selection becomes the first entry's id; an existing selection is kept; with
\* nothing selected and an empty list the selection stays empty.
C9_DefaultSelection ==
    last.op = "REPOSITORIES_LIST" =>
        LET list == last.arg.payload.repositories
            was == prev.selectedRepositoryId
        IN  /\ (was = None /\ Len(list) > 0) =>
                   store.selectedRepositoryId = Some(list[1].id)
            /\ was # None => store.selectedRepositoryId = was
            /\ (was = None /\ Len(list) = 0) => store.selectedRepositoryId = None

\* A list that does not start with the selected repository has just arrived.
C9_Witness ==
    /\ last.op = "REPOSITORIES_LIST"
    /\ prev.selectedRepositoryId = Some("r1")
    /\ Len(last.arg.payload.repositories) = 2
    /\ last.arg.payload.repositories[1].id = "r2"
    /\ store.selectedRepositoryId = Some("r1")

\* C10: only REPOSITORIES_LIST changes the registry: no submit of the
\* repository form (addRepository, updateRepository), no Remove or Select and
\* no REPOSITORY_ACTION_SUCCESS or REPOSITORY_ACTION_ERROR does; and
\* REPOSITORY_ACTION_ERROR with message m changes nothing but the status
\* text, which reports m.
C10_RegistryFrame ==
    /\ store.repositories # prev.repositories => last.op = "REPOSITORIES_LIST"
    /\ last.op = "REPOSITORY_ACTION_ERROR" =>
           store = [prev EXCEPT !.systemMessage =
                        Some("Repository action error: "
                             \o last.arg.payload.message)]

\* A delete of a listed repository has just been refused by the server.
C10_Witness ==
    /\ last.op = "REPOSITORY_ACTION_ERROR"
    /\ prev.systemMessage = Some("Deleting repository...")
    /\ Len(store.repositories) = 2
    /\ store.systemMessage = Some("Repository action error: boom")

\* C11: selectRepository(id) sets the selection to id in the step that hands
\* SELECT_REPOSITORY to the channel, before any event of the server, and a
\* REPOSITORY_ACTION_ERROR that follows leaves the selection at id.
C11_OptimisticSelection ==
    /\ last.op = "selectRepository" =>
           /\ store.selectedRepositoryId = Some(last.arg)
           /\ last.sent = Some(selectRepositoryCommand(last.arg))
    /\ last.op = "REPOSITORY_ACTION_ERROR" =>
           store.selectedRepositoryId = prev.selectedRepositoryId
    /\ ConfigurationScreenShown =>
           \A id \in ListedIds, m \in ErrorTexts :
               onMessage(handleSelectRepository(store, id),
                         [type |-> "REPOSITORY_ACTION_ERROR",
                          payload |-> [message |-> m]]).selectedRepositoryId
                   = Some(id)

\* The server has just refused the selection of r2, made while r1 came first
\* in the registry; r2 is still selected.
C11_Witness ==
    /\ last.op = "REPOSITORY_ACTION_ERROR"
    /\ prev.systemMessage = Some("Selecting repository...")
    /\ Len(store.repositories) = 2
    /\ store.repositories[1].id = "r1"
    /\ prev.selectedRepositoryId = Some("r2")
    /\ store.selectedRepositoryId = Some("r2")

\* C12: since the channel was last open at most 10 attempts to reconnect are
\* made, each one started by a timer of 3000 ms set when the channel closed;
\* when the tenth has failed no timer is set and the channel stays CLOSED.
C12_ReconnectCeiling ==
    /\ [](/\ reconnectCount <= 10
          /\ readyState = "CLOSED" =>
                 reconnectTimeout =
                     IF reconnectCount < 10 THEN Some(3000) ELSE None
          /\ readyState # "CLOSED" => reconnectTimeout = None)
    /\ [][(readyState # "CONNECTING" /\ readyState' = "CONNECTING") =>
              /\ reconnectTimeout = Some(3000)
              /\ reconnectCount' = reconnectCount + 1]_vars
    /\ [][(readyState = "CLOSED" /\ reconnectCount = 10) =>
              readyState' = "CLOSED"]_vars

\* The tenth attempt in a row has failed.
C12_Witness ==
    /\ readyState = "CLOSED"
    /\ reconnectCount = 10
    /\ reconnectTimeout = None

\* C13: every command put on the wire was handed to the channel while the
\* channel was OPEN; one handed over in another state is never transmitted,
\* not even when the channel opens again.
C13_NothingKeptAcrossDisconnect ==
    \A i \in 1..Len(wire) : wire[i].issuedWhile = "OPEN"

\* C14: a message of a type the router has no case for leaves every part of
\* the store as it was, and an event that follows it is routed as if the
\* message had not arrived.
LaterEvents ==
    {[type |-> "CONFIG_SUCCESS"],
     [type |-> "CONFIG_ERROR", payload |-> [message |-> "boom"]],
     [type |-> "FILE_TREE_DATA",
      payload |-> [tree |-> OneNodeTree, repository |-> None]],
     [type |-> "FILE_TREE_ERROR", payload |-> [message |-> "boom"]],
     [type |-> "REPOSITORY_ACTION_ERROR", payload |-> [message |-> "boom"]],
     [type |-> "REPOSITORY_ACTION_SUCCESS",
      payload |-> [action |-> "select", repository_id |-> Some("r2"),
                   repository |-> None]]}
    \cup {[type |-> "NEW_CHAT_MESSAGE", payload |-> msg] :
              msg \in ServerChatMessages}
    \cup {[type |-> "REPOSITORIES_LIST", payload |-> [repositories |-> list]] :
              list \in RepositoryLists}
    \cup TypingEvents

C14_UnknownIgnored ==
    /\ last.op \in {u.type : u \in UnknownMessages} => store = prev
    /\ readyState = "OPEN" =>
           \A u \in UnknownMessages, e \in LaterEvents :
               /\ onMessage(store, u) = store
               /\ onMessage(onMessage(store, u), e) = onMessage(store, e)

\* A configured session with a registry, a selection and a transcript has
\* just received a message of an unknown type.
C14_Witness ==
    /\ last.op = "TOKEN_ROTATED"
    /\ store.isConfigured
    /\ store.configData # None
    /\ Len(store.repositories) = 2
    /\ store.selectedRepositoryId # None
    /\ Len(store.chatMessages) > 0
    /\ store.systemMessage = None
    /\ store = prev

\* C15: the id of every user message in the transcript differs from the id of
\* every other entry, another user message sent at the same clock value and
\* a message of the server included.
C15_UniqueIds ==
    \A i, j \in 1..Len(store.chatMessages) :
        (i # j /\ store.chatMessages[i].sender = "user") =>
            store.chatMessages[i].id # store.chatMessages[j].id

\* The commands handed to the channel by the last handler, waiting in the
\* channel, or just put on the wire.
Handed ==
    {wire[i].message : i \in 1..Len(wire)}
    \cup {messageQueue[i].message : i \in 1..Len(messageQueue)}
    \cup {last.sent[i] : i \in 1..Len(last.sent)}

\* C16: no SUBMIT_CONFIG with an empty credential is handed to the channel,
\* and a submission of the configuration form with an empty credential sends
\* nothing and leaves the store, the configuration included, as it was.
C16_NoEmptyCredential ==
    /\ \A c \in Handed :
           c.type = "SUBMIT_CONFIG" => c.payload.geminiToken # ""
    /\ (last.op \in {"configure", "handleConfigSubmit"}
        /\ last.arg.geminiToken = "") =>
           /\ last.sent = None
           /\ store = prev

\* The configuration form has just been submitted with an empty credential,
\* on an open channel and with a registry.
C16_Witness ==
    /\ last.op = "handleConfigSubmit"
    /\ last.arg.geminiToken = ""
    /\ readyState = "OPEN"
    /\ Len(store.repositories) > 0
    /\ form.formError = Some("Gemini API Token is required.")
    /\ ~form.isConfigured
    /\ store.configData = None
    /\ messageQueue = <<>>

\* C17: no ADD_REPOSITORY is handed to the channel with an empty name, owner,
\* repo or token, and no UPDATE_REPOSITORY with an empty name, owner or repo;
\* a submission of the repository form that handleRepoSubmit rejects sends
\* nothing, leaves the store as it was and keeps what the form holds.  The
\* rejected submissions looked at are those the required inputs of the form
\* let through.
C17_RepoPreconditions ==
    /\ \A c \in Handed :
           /\ c.type = "ADD_REPOSITORY" =>
                  /\ c.payload.repository.name # ""
                  /\ c.payload.repository.owner # ""
                  /\ c.payload.repository.repo # ""
                  /\ c.payload.repository.token # ""
           /\ c.type = "UPDATE_REPOSITORY" =>
                  /\ c.payload.repository.name # ""
                  /\ c.payload.repository.owner # ""
                  /\ c.payload.repository.repo # ""
    /\ (/\ last.op = "handleRepoSubmit"
        /\ requiredFilled(last.arg)
        /\ ~repoSubmitAccepted(last.arg)) =>
           /\ last.sent = <<>>
           /\ store = prev
           /\ [form EXCEPT !.formError = None]
                  = [last.arg EXCEPT !.formError = None]

\* C18: the form of an existing repository submitted with name, owner and
\* repo filled in and the token empty hands UPDATE_REPOSITORY for that
\* repository to the channel.
C18_UpdateWithoutToken ==
    (/\ last.op = "handleRepoSubmit"
     /\ last.arg.editingRepoId # None
     /\ last.arg.repoName # ""
     /\ last.arg.repoOwner # ""
     /\ last.arg.repoName2 # ""
     /\ last.arg.repoToken = "") =>
        \E i \in 1..Len(last.sent) :
            last.sent[i] = updateRepositoryCommand(last.arg.editingRepoId[1],
                                                   repositoryOf(last.arg))

\* C19: after CONFIG_ERROR, FILE_TREE_ERROR or REPOSITORY_ACTION_ERROR a session
\* that was configured is still configured, a tree that was loaded with no
\* fetch outstanding is still loaded, and the registry and the transcript
\* are as they were.
C19_ErrorsKeepConfirmedState ==
    last.op \in {"CONFIG_ERROR", "FILE_TREE_ERROR", "REPOSITORY_ACTION_ERROR"} =>
        /\ (prev.isConfigured /\ prev.configData # None) => store.isConfigured
        /\ (prev.fileTree # None /\ ~prev.isFileTreeLoading) =>
               store.fileTree = prev.fileTree
        /\ store.repositories = prev.repositories
        /\ store.chatMessages = prev.chatMessages

\* C20: after a session reset the file tree is IDLE: no tree, not loading and
\* no error message, whatever it was before.
C20_ResetIdlesTree ==
    last.op = "resetConfiguration" =>
        /\ store.fileTree = None
        /\ ~store.isFileTreeLoading
        /\ store.fileTreeError = None

\* C21: FILE_TREE_DATA leaves the file tree LOADED with exactly the tree of
\* the payload, not loading and without error; FILE_TREE_ERROR with message m
\* leaves it in ERROR with m, not loading and without tree.
C21_FileTreeAnswers ==
    /\ last.op = "FILE_TREE_DATA" =>
           /\ store.fileTree = Some(last.arg.payload.tree)
           /\ ~store.isFileTreeLoading
           /\ store.fileTreeError = None
    /\ last.op = "FILE_TREE_ERROR" =>
           /\ store.fileTreeError = Some(last.arg.payload.message)
           /\ ~store.isFileTreeLoading
           /\ store.fileTree = None

\* A fetch has just been answered with the two-node tree.
C21_Witness ==
    /\ last.op = "FILE_TREE_DATA"
    /\ prev.isFileTreeLoading
    /\ prev.fileTree = None
    /\ last.arg.payload.tree = TwoNodeTree
    /\ store.fileTree = Some(TwoNodeTree)

\* C22: REPOSITORY_ACTION_SUCCESS with action select sets the selection to the
\* repository_id it echoes; with action add, update or delete it leaves the
\* selection as it was.
C22_SelectionOnSuccess ==
    last.op = "REPOSITORY_ACTION_SUCCESS" =>
        /\ (last.arg.payload.action = "select"
            /\ last.arg.payload.repository_id # None) =>
               store.selectedRepositoryId = last.arg.payload.repository_id
        /\ last.arg.payload.action \in {"add", "update", "delete"} =>
               store.selectedRepositoryId = prev.selectedRepositoryId

\* A delete of r2 has just been confirmed, echoing r2, while r1 is selected.
C22_Witness ==
    /\ last.op = "REPOSITORY_ACTION_SUCCESS"
    /\ last.arg.payload.action = "delete"
    /\ last.arg.payload.repository_id = Some("r2")
    /\ prev.selectedRepositoryId = Some("r1")
    /\ store.selectedRepositoryId = Some("r1")

\* C23: after REPOSITORY_ACTION_SUCCESS the status text is the confirmation of
\* the echoed action, whatever else the payload carries: "added" for add,
\* "updated" for update, "deleted" for delete, and for select no
\* confirmation of another action.
Confirmations ==
    [add |-> "Repository added successfully",
     update |-> "Repository updated successfully",
     delete |-> "Repository deleted successfully"]

C23_ConfirmationMatchesAction ==
    last.op = "REPOSITORY_ACTION_SUCCESS" =>
        LET action == last.arg.payload.action
        IN  /\ action \in DOMAIN Confirmations =>
                   store.systemMessage = Some(Confirmations[action])
            /\ action = "select" =>
                   \/ store.systemMessage = prev.systemMessage
                   \/ \A a \in DOMAIN Confirmations :
                          store.systemMessage # Some(Confirmations[a])

\* C24: after AGENT_TYPING the store holds the isTyping value of the payload,
\* so that it differs from the store the opposite value would have given, and
\* the transcript is as it was.
C24_TypingIndicator ==
    last.op = "AGENT_TYPING" =>
        /\ store # onMessage(prev, [type |-> "AGENT_TYPING",
                                    payload |-> [isTyping |->
                                        ~last.arg.payload.isTyping]])
        /\ store.chatMessages = prev.chatMessages

\* C25: sendChatMessage and NEW_CHAT_MESSAGE each add exactly one entry at the
\* end of the transcript, NEW_CHAT_MESSAGE the payload as received; nothing
\* but these two and a session reset changes the transcript, neither among
\* the steps taken nor among the other events and handlers that could run.
OtherEvents ==
    {e \in LaterEvents : e.type # "NEW_CHAT_MESSAGE"} \cup UnknownMessages

C25_TranscriptAppendOnly ==
    /\ last.op \in {"sendChatMessage", "NEW_CHAT_MESSAGE"} =>
           /\ Len(store.chatMessages) = Len(prev.chatMessages) + 1
           /\ SubSeq(store.chatMessages, 1, Len(prev.chatMessages))
                  = prev.chatMessages
    /\ last.op = "NEW_CHAT_MESSAGE" =>
           store.chatMessages[Len(store.chatMessages)] = last.arg.payload
    /\ last.op = "sendChatMessage" =>
           /\ store.chatMessages[Len(store.chatMessages)].sender = "user"
           /\ store.chatMessages[Len(store.chatMessages)].text = last.arg
    /\ store.chatMessages # prev.chatMessages =>
           last.op \in {"sendChatMessage", "NEW_CHAT_MESSAGE",
                        "resetConfiguration"}
    /\ \A e \in OtherEvents :
           onMessage(store, e).chatMessages = store.chatMessages
    /\ \A id \in RepoIds, repo \in RepositoryForms :
           /\ handleFetchFileTree(store, [repository_id |-> id]).chatMessages
                  = store.chatMessages
           /\ handleAddRepository(store, repo).chatMessages = store.chatMessages
           /\ handleUpdateRepository(store, id, repo).chatMessages
                  = store.chatMessages
           /\ handleDeleteRepository(store, id).chatMessages = store.chatMessages
           /\ handleSelectRepository(store, id).chatMessages = store.chatMessages
           /\ handleConfigure(store, configOf("abc", store.repositories)).chatMessages
                  = store.chatMessages

\* A message of the server has just been added behind one that was there.
C25_Witness ==
    /\ last.op = "NEW_CHAT_MESSAGE"
    /\ Len(prev.chatMessages) = 1
    /\ Len(store.chatMessages) = 2
    /\ store.chatMessages[1] = prev.chatMessages[1]
    /\ store.chatMessages[2] = last.arg.payload
    /\ store.chatMessages[2] # store.chatMessages[1]

\* C26: when the router runs, every message received since it last ran has
\* been applied to the store, once and in the order received, however many
\* came in before it ran.
C26_EveryEventApplied ==
    "arrived" \in DOMAIN last => store = routed(prev, last.arrived)

\* The text App computes from the channel's state, and the text of the status
\* banner: the system status when there is one, else the channel's text.
connectionStatusMessage(ready) ==
    CASE ready = "CONNECTING" -> Some("Connecting to agent...")
      [] ready = "OPEN" -> None
      [] ready = "CLOSING" -> Some("Disconnecting...")
      [] ready = "CLOSED" ->
             Some("Disconnected from agent. Attempting to reconnect...")
      [] OTHER -> Some("WebSocket not ready.")

bannerText(s, ready) ==
    IF ready = "CONNECTING" /\ ~s.isConfigured
    THEN None
    ELSE IF TruthyStr(s.systemMessage)
    THEN s.systemMessage
    ELSE IF connectionStatusMessage(ready) # None /\ ready # "OPEN"
    THEN connectionStatusMessage(ready)
    ELSE None

\* C27: whenever the channel is CLOSED the status banner shows the
\* disconnection notice, whatever the system status text is.
C27_DisconnectionShown ==
    readyState = "CLOSED" =>
        bannerText(store, readyState) =
            Some("Disconnected from agent. Attempting to reconnect...")

\* C28: every repository of a SUBMIT_CONFIG handed to the channel has an
\* empty token, and a registry entry opened for editing starts with an empty
\* token field, whatever was typed into the form before.
C28_NoRoundTrippedToken ==
    /\ [](\A c \in Handed :
             c.type = "SUBMIT_CONFIG" =>
                 \A i \in 1..Len(c.payload.repositories) :
                     c.payload.repositories[i].token = "")
    /\ [][(form'.editingRepoId # None
           /\ form'.editingRepoId # form.editingRepoId)
              => form'.repoToken = ""]_vars

C28_Witness ==
    /\ last.op = "configure"
    /\ last.sent # None
    /\ Len(last.sent[1].payload.repositories) = 2
    /\ form.editingRepoId # None
    /\ form.repoToken = ""

\* C29: at most one of "loading", "holds a tree", "holds an error message" is
\* true of the file tree, in every state and after any event the server can
\* send next.
FileTreeFacets(s) ==
    (IF s.isFileTreeLoading THEN 1 ELSE 0)
    + (IF s.fileTree # None THEN 1 ELSE 0)
    + (IF s.fileTreeError # None THEN 1 ELSE 0)

C29_OneFileTreeState ==
    /\ FileTreeFacets(store) <= 1
    /\ \A e \in LaterEvents : FileTreeFacets(onMessage(store, e)) <= 1

C29_Witness ==
    /\ last.op = "FILE_TREE_ERROR"
    /\ prev.isFileTreeLoading
    /\ store.fileTreeError # None
    /\ ~store.isFileTreeLoading
    /\ store.fileTree = None

\* C30: the selected repository id is empty or the id of a registry entry.
C30_SelectionListed ==
    TruthyStr(store.selectedRepositoryId) =>
        store.selectedRepositoryId[1] \in ListedIds

\* C31: a configured session holds the configuration that was submitted.
C31_ConfiguredHasConfiguration ==
    store.isConfigured => store.configData # None

\* C32: when a repository id is selected and a repository record is stored,
\* the record is the one of the selected id.
C32_RecordMatchesSelection ==
    (TruthyStr(store.selectedRepositoryId) /\ store.selectedRepository # None)
        => store.selectedRepository[1].id = store.selectedRepositoryId[1]

\* C33: after a CONFIG_ERROR for a submitted configuration, with a credential
\* in the form, a non-empty registry and the channel open, the configuration
\* can be submitted again.
C33_ResubmitAfterError ==
    (/\ last.op = "CONFIG_ERROR"
     /\ prev.configData # None
     /\ form.geminiToken # ""
     /\ Len(store.repositories) # 0
     /\ readyState = "OPEN") => SubmitEnabled

\* C34: a FETCH_FILES command carries the id that was selected when it was
\* issued, is issued only with a selection and with no fetch loading, and is
\* handed to the channel only while the channel is open.
C34_FetchGuarded ==
    /\ last.op = "fetchFileTree" =>
           /\ TruthyStr(prev.selectedRepositoryId)
           /\ ~prev.isFileTreeLoading
           /\ last.sent =
                  Some([type |-> "FETCH_FILES",
                        payload |-> [repository_id |->
                                         prev.selectedRepositoryId[1]]])
    /\ \A i \in 1..Len(wire) :
           wire[i].message.type = "FETCH_FILES" =>
               wire[i].issuedWhile = "OPEN"
    /\ \A i \in 1..Len(messageQueue) :
           messageQueue[i].message.type # "FETCH_FILES"

C34_Witness ==
    /\ last.op = "fetchFileTree"
    /\ prev.selectedRepositoryId = Some("r2")
    /\ prev.fileTree # None
    /\ Len(wire) = 1
    /\ wire[1].message.payload.repository_id = "r2"
    /\ reconnectCount = 0

\* C35: the command of every user message of the transcript was transmitted:
\* none of them is still waiting in the channel, handed over while it was
\* not open.
C35_UserMessagesTransmitted ==
    \A i \in 1..Len(messageQueue) :
        messageQueue[i].message.type = "SEND_CHAT_MESSAGE" =>
            \A k \in 1..Len(store.chatMessages) :
                ~(/\ store.chatMessages[k].sender = "user"
                  /\ store.chatMessages[k].text =
                         messageQueue[i].message.payload.text)

\* C36: a FILE_TREE_DATA event that arrives while no fetch is loading leaves
\* the stored tree as it was.
C36_NoTreeWithoutFetch ==
    (readyState = "OPEN" /\ ~store.isFileTreeLoading) =>
        \A tree \in FileTrees,
           repository \in {None} \cup {Some(r) : r \in RepositoryResponses} :
            onMessage(store,
                      [type |-> "FILE_TREE_DATA",
                       payload |-> [tree |-> tree,
                                    repository |-> repository]]).fileTree
                = store.fileTree

\* C37: the acknowledgement of a selection that was followed by a later
\* selection leaves the local selection at the later one.
C37_EarlierAckKeepsLaterSelection ==
    (/\ last.op = "REPOSITORY_ACTION_SUCCESS"
     /\ "pending" \in DOMAIN last.arg
     /\ last.arg.pending # <<>>)
        => store.selectedRepositoryId = prev.selectedRepositoryId

\* C38: once the answer to a command has been routed, the progress text the
\* command set is no longer the system status.
C38_ProgressTextCleared ==
    /\ last.op \in {"FILE_TREE_DATA", "FILE_TREE_ERROR"} =>
           store.systemMessage # Some("Fetching file tree...")
    /\ (last.op = "REPOSITORY_ACTION_SUCCESS"
        /\ last.arg.payload.action = "select") =>
           store.systemMessage # Some("Selecting repository...")
    /\ last.op \in {"CONFIG_SUCCESS", "CONFIG_ERROR"} =>
           store.systemMessage # Some("Submitting configuration...")

=============================================================================
